---- MODULE Spec2Model ----
(***************************************************************************)
(* AsioTcpClient: an auto-reconnecting TCP client (TcpClient) speaking a   *)
(* length-prefixed framing protocol (Message).                             *)
(*                                                                         *)
(* The client is modelled at the granularity of the io_context: API calls  *)
(* (connect, disconnect, send), completions produced by the reactor, and   *)
(* completion handlers run one at a time from a FIFO completion queue.     *)
(* Every C++ member function is an operator from a client state record to  *)
(* a client state record; an action applies the handler's operator to the  *)
(* current state and commits the result.                                   *)
(***************************************************************************)
EXTENDS Integers, Sequences, FiniteSets, TLC

(***************************************************************************)
(* Bounds of the model.                                                    *)
(***************************************************************************)
MaxBodyLen == 1          \* longest body whose bytes are materialised
MaxSends == 1            \* send() calls
MaxConnectCalls == 1     \* connect() calls
MaxDisconnectCalls == 1  \* disconnect() calls
MaxFaults == 2           \* genuine failures produced by the environment
MaxRx == 1               \* frames the peer sends
MaxRetriesCfg == 1       \* largest finite maxRetries configured
TxSends == 3             \* send() calls when the peer is silent (SpecTx)
TxFaults == 1            \* failures when the peer is silent (SpecTx)
RxFrames == 2            \* frames the peer sends when nothing is sent (SpecRx)
RxFaults == 1            \* failures when nothing is sent (SpecRx)
RxConnects == 2          \* connect() calls when nothing is sent (SpecRx)
MaxAttempts == 2         \* the timer no longer fires once this many retries were scheduled
RetryFaults == 56        \* failures when the server stays unreachable (SpecRetry)
RetryAttempts == 56      \* retries scheduled when the server stays unreachable (SpecRetry)
FlushSends == 2          \* send() calls when nothing fails (SpecFlush)
FlushConnects == 2       \* connect() calls when nothing fails (SpecFlush)
ThreadFaults == 2        \* failures while the application thread calls in (SpecThreads)

(***************************************************************************)
(* Program constants.                                                      *)
(***************************************************************************)
HEADER_SIZE == 4
MAX_BODY_SIZE == 16 * 1024 * 1024
InitialDelayMs == 1000
MaxDelayMs == 30000
BackoffMultiplier == 2

BodyBytes == {97}
Hosts == {"h1"}

RECURSIVE SeqsUpTo(_, _)
SeqsUpTo(S, n) ==
  IF n = 0 THEN {<<>>}
  ELSE LET shorter == SeqsUpTo(S, n - 1)
       IN shorter \cup {Append(q, x) : q \in {r \in shorter : Len(r) = n - 1}, x \in S}

Bodies == SeqsUpTo(BodyBytes, MaxBodyLen)

Reverse(w) == [i \in 1..Len(w) |-> w[Len(w) + 1 - i]]

(***************************************************************************)
(* Framing codec (Message.h).  A uint32_t object is the tuple of its four  *)
(* bytes, most significant first; littleEndian is the byte order of the    *)
(* host the program was built for.                                         *)
(***************************************************************************)
VARIABLES littleEndian

(***************************************************************************)
(* The build.  Converting a double outside the range of int64_t to int64_t *)
(* is undefined; the instruction the target uses either saturates          *)
(* (castSaturates) or yields the most negative value.                      *)
(***************************************************************************)
VARIABLES castSaturates

\* static_cast<uint32_t>(n), for 0 <= n < 2^31
U32(n) == << (n \div 16777216) % 256, (n \div 65536) % 256, (n \div 256) % 256, n % 256 >>

\* the value of a uint32_t (below 2^31: the first byte is at most 127)
U32Val(w) == ((w[1] * 256 + w[2]) * 256 + w[3]) * 256 + w[4]

htonl(w) == IF littleEndian THEN Reverse(w) ELSE w
ntohl(w) == IF littleEndian THEN Reverse(w) ELSE w

\* memcpy(bytes, &word, 4) and memcpy(&word, bytes, 4)
MemFromU32(w) == IF littleEndian THEN Reverse(w) ELSE w
MemToU32(b) == IF littleEndian THEN Reverse(SubSeq(b, 1, HEADER_SIZE)) ELSE SubSeq(b, 1, HEADER_SIZE)

\* the header bytes encode() writes for a body of the given size
encodeHeader_hostOrder(size) == MemFromU32(U32(size))
encodeHeader(size) == MemFromU32(htonl(U32(size)))

encode(body) == encodeHeader(Len(body)) \o body

decodeHeader(data) == U32Val(ntohl(MemToU32(data)))

isValidLength_exclusive(len) == len < MAX_BODY_SIZE
isValidLength(len) == len <= MAX_BODY_SIZE

\* the bytes of a frame that follow its header: what doReadBody reads
frameBody(frame) == SubSeq(frame, HEADER_SIZE + 1, Len(frame))

(***************************************************************************)
(* Client state (TcpClient.h) and the reactor's view of it.                *)
(***************************************************************************)
VARIABLES
  state_,              \* ClientState
  userDisconnect_,     \* user requested disconnect
  reconnectAttempts_,  \* retries scheduled since the last success
  host_,               \* target of the last connect()
  reconnectConfig_,    \* [enabled, maxRetries]
  socket_,             \* "closed", "open" (not connected) or "connected"
  sockOps,             \* operations pending on socket_
  inbound,             \* bytes received on socket_ and not yet read
  resolving,           \* async_resolve operations pending on resolver_
  reconnectTimer_,     \* [pending, delay]
  ready,               \* io_context completion queue (FIFO)
  writeQueue_,         \* sequence of [id, data]
  headerBuffer_,
  bodyBuffer_,
  ctx,                 \* the thread in io_context::run: "running", "deadlocked", "terminated",
                       \* or "midTeardown" (inside handleDisconnect, past the test of line 143)
  hist,                \* history variables (callbacks invoked, bytes on the wire, calls made)
  scn                  \* what the application and the environment do in this run:
                       \* [sends, connects, disconnects, faults, rx, attempts]

clientVars == << state_, userDisconnect_, reconnectAttempts_, host_, reconnectConfig_,
                 socket_, sockOps, inbound, resolving, reconnectTimer_, ready,
                 writeQueue_, headerBuffer_, bodyBuffer_, ctx, hist >>

(***************************************************************************)
(* Codec exercise state: a body (or a size standing for a body too large   *)
(* to materialise) is encoded, then decoded.                               *)
(***************************************************************************)
VARIABLES codec

vars == << littleEndian, castSaturates, state_, userDisconnect_, reconnectAttempts_, host_, reconnectConfig_,
           socket_, sockOps, inbound, resolving, reconnectTimer_, ready,
           writeQueue_, headerBuffer_, bodyBuffer_, ctx, hist, scn, codec >>

States == {"Disconnected", "Connecting", "Connected", "Reconnecting"}

\* The client as one record.
Cur ==
  [ state_ |-> state_, userDisconnect_ |-> userDisconnect_,
    reconnectAttempts_ |-> reconnectAttempts_, host_ |-> host_,
    reconnectConfig_ |-> reconnectConfig_, socket_ |-> socket_, sockOps |-> sockOps,
    inbound |-> inbound,
    resolving |-> resolving, reconnectTimer_ |-> reconnectTimer_, ready |-> ready,
    writeQueue_ |-> writeQueue_, headerBuffer_ |-> headerBuffer_,
    bodyBuffer_ |-> bodyBuffer_, ctx |-> ctx, hist |-> hist ]

Commit(act, ec, s) ==
  /\ state_' = s.state_
  /\ userDisconnect_' = s.userDisconnect_
  /\ reconnectAttempts_' = s.reconnectAttempts_
  /\ host_' = s.host_
  /\ reconnectConfig_' = s.reconnectConfig_
  /\ socket_' = s.socket_
  /\ sockOps' = s.sockOps
  /\ inbound' = s.inbound
  /\ resolving' = s.resolving
  /\ reconnectTimer_' = s.reconnectTimer_
  /\ ready' = s.ready
  /\ writeQueue_' = s.writeQueue_
  /\ headerBuffer_' = s.headerBuffer_
  /\ bodyBuffer_' = s.bodyBuffer_
  /\ ctx' = s.ctx
  /\ hist' = [s.hist EXCEPT !.step = [act |-> act, ec |-> ec]]
  /\ UNCHANGED << littleEndian, castSaturates, scn, codec >>

\* An operation in the reactor or a completion in the queue.  ec is "pending",
\* "ok", "err" (a genuine failure) or "aborted" (operation_aborted); by names
\* what cancelled it; n is a body length, a frame id or 0; data the bytes.
Op(op, ec, n, data) == [op |-> op, ec |-> ec, by |-> "none", n |-> n, data |-> data]
Completed(o, ec) == [o EXCEPT !.ec = ec]
Aborted(o, by) == [o EXCEPT !.ec = "aborted", !.by = by]

HasPending(s, kind) == \E i \in DOMAIN s.sockOps : s.sockOps[i].op = kind
RemoveAt(q, i) == SubSeq(q, 1, i - 1) \o SubSeq(q, i + 1, Len(q))

(***************************************************************************)
(* Reactor primitives used by the client.                                  *)
(***************************************************************************)
\* socket_.close(ec): every operation pending on the socket completes with
\* operation_aborted and unread bytes are discarded; closing a closed socket
\* does nothing.
close(s, by) ==
  IF s.socket_ = "closed" THEN s
  ELSE [s EXCEPT !.socket_ = "closed",
                 !.ready = @ \o [i \in DOMAIN s.sockOps |-> Aborted(s.sockOps[i], by)],
                 !.sockOps = <<>>,
                 !.inbound = <<>>,
                 !.hist.wire = <<>>,
                 !.hist.closedBy = by]

\* reconnectTimer_.cancel() / the implicit cancel of expires_after()
cancelTimer(s, by) ==
  IF s.reconnectTimer_.pending
  THEN [s EXCEPT !.reconnectTimer_.pending = FALSE,
                 !.ready = Append(@, Aborted(Op("timer", "pending", 0, <<>>), by))]
  ELSE s

\* asio::async_read / asio::async_write on socket_: a zero-length transfer
\* completes at once; on a closed socket, or an open one that is neither
\* connected nor connecting, the operation fails at once; otherwise it pends.
startSockOp(s, o) ==
  IF o.op = "write" /\ Len(o.data) = 0
  THEN [s EXCEPT !.ready = Append(@, Completed(o, "ok"))]
  ELSE IF s.socket_ = "connected" \/ (s.socket_ = "open" /\ HasPending(s, "connect"))
  THEN [s EXCEPT !.sockOps = Append(@, o)]
  ELSE [s EXCEPT !.ready = Append(@, Completed(o, "err"))]

(***************************************************************************)
(* TcpClient.cpp                                                           *)
(***************************************************************************)
isConnected(s) == s.state_ = "Connected"

\* onError_(ec)
onError(s, o) ==
  IF o.ec = "aborted"
  THEN IF o.by = "disconnect" THEN [s EXCEPT !.hist.errCancelled = @ + 1]
                              ELSE [s EXCEPT !.hist.errAborted = @ + 1]
  ELSE [s EXCEPT !.hist.errIo = @ + 1]

resetReconnectState(s) == [s EXCEPT !.reconnectAttempts_ = 0, !.hist.delays = <<>>]

Min(a, b) == IF a <= b THEN a ELSE b

\* x * b^n when that is at most cap, otherwise some value above cap: the
\* product is followed only as far as the comparison with cap needs.
RECURSIVE CappedProduct(_, _, _, _)
CappedProduct(x, b, n, cap) ==
  IF n = 0 \/ x > cap THEN x ELSE CappedProduct(x * b, b, n - 1, cap)

\* the number of binary digits of x >= 1
RECURSIVE BitLength(_)
BitLength(x) == IF x <= 1 THEN 1 ELSE 1 + BitLength(x \div 2)

\* initialDelay * std::pow(2.0, n), a double, is below 2^63 and so has a
\* value as a signed 64-bit millisecond count
FitsInt64(n) == BitLength(InitialDelayMs) + n <= 63

\* What a count of -2^63 ms is written as here: the most negative value
\* the checker's integers hold.
Int64MinMs == -2147483647

\* duration_cast<milliseconds> of the double product, then std::min with
\* maxDelay.
calculateReconnectDelay(s) ==
  IF s.reconnectAttempts_ = 0 THEN InitialDelayMs
  ELSE IF FitsInt64(s.reconnectAttempts_)
  THEN Min(CappedProduct(InitialDelayMs, BackoffMultiplier, s.reconnectAttempts_, MaxDelayMs),
           MaxDelayMs)
  ELSE IF castSaturates THEN MaxDelayMs
  ELSE Int64MinMs

doResolve(s) == [s EXCEPT !.resolving = @ + 1]

\* doReconnect without the check of lines 166-169.
doReconnect_noLimit(s) ==
  LET t == cancelTimer([s EXCEPT !.state_ = "Reconnecting"], "expires_after")
  IN [t EXCEPT !.reconnectAttempts_ = @ + 1,
               !.reconnectTimer_ = [pending |-> TRUE, delay |-> calculateReconnectDelay(s)],
               !.hist.delays = Append(@, calculateReconnectDelay(s))]
doReconnect(s) ==
  IF s.reconnectConfig_.maxRetries >= 0 /\ s.reconnectAttempts_ >= s.reconnectConfig_.maxRetries
  THEN [s EXCEPT !.state_ = "Disconnected"]
  ELSE LET t == cancelTimer([s EXCEPT !.state_ = "Reconnecting"], "expires_after")
       IN [t EXCEPT !.reconnectAttempts_ = @ + 1,
                    !.reconnectTimer_ = [pending |-> TRUE, delay |-> calculateReconnectDelay(s)],
                    !.hist.delays = Append(@, calculateReconnectDelay(s))]

handleDisconnect(s) ==
  LET e == [s EXCEPT !.hist.nTeardown = @ + 1]
  IN IF e.state_ = "Disconnected" THEN e
     ELSE LET c == close(e, "handleDisconnect")
          IN IF c.userDisconnect_
             THEN [c EXCEPT !.state_ = "Disconnected", !.hist.nDisconnected = @ + 1]
             ELSE LET d == IF c.state_ = "Connected"
                           THEN [c EXCEPT !.hist.nDisconnected = @ + 1] ELSE c
                  IN IF d.reconnectConfig_.enabled THEN doReconnect(d)
                     ELSE [d EXCEPT !.state_ = "Disconnected"]

\* handleDisconnect in two parts, for a caller that found state_ other than
\* Disconnected and userDisconnect_ false: up to and including the
\* onDisconnected_ callback (lines 134-154), and from the test of
\* reconnectConfig_.enabled on (lines 156-161).
handleDisconnectUpToCallback(s) ==
  LET c == close([s EXCEPT !.hist.nTeardown = @ + 1], "handleDisconnect")
  IN IF c.state_ = "Connected" THEN [c EXCEPT !.hist.nDisconnected = @ + 1] ELSE c

handleDisconnectFromReconnect(s) ==
  IF s.reconnectConfig_.enabled THEN doReconnect(s)
  ELSE [s EXCEPT !.state_ = "Disconnected"]

\* The handler of reconnectTimer_.async_wait (doReconnect's lambda).
onReconnectTimer_noUserCheck(s, o) ==
  IF o.ec # "ok" THEN s
  ELSE doResolve([close(s, "socket_=") EXCEPT !.state_ = "Connecting"])
onReconnectTimer(s, o) ==
  IF o.ec # "ok" THEN s
  ELSE IF s.userDisconnect_ THEN s
  ELSE doResolve([close(s, "socket_=") EXCEPT !.state_ = "Connecting"])

doReadHeader(s) == startSockOp(s, Op("readHeader", "pending", HEADER_SIZE, <<>>))

\* bodyBuffer_.resize(bodyLen): only buffers of at most MaxBodyLen bytes are
\* materialised.
resize(buf, n) ==
  IF n > MaxBodyLen THEN <<>>
  ELSE [i \in 1..n |-> IF i <= Len(buf) THEN buf[i] ELSE 0]

doReadBody(s, bodyLen) ==
  startSockOp([s EXCEPT !.bodyBuffer_ = resize(@, bodyLen)],
              Op("readBody", "pending", bodyLen, <<>>))

\* The bytes the reactor finds behind asio::buffer(data) once doWrite has
\* returned and its local vector is destroyed: the frame, or whatever the
\* freed storage holds by then.
Garbled(data) == [i \in DOMAIN data |-> 255 - data[i]]

\* doWrite up to and including the initiation of async_write.
doWrite(s, garble) ==
  IF s.writeQueue_ = <<>> THEN s
  ELSE LET head == Head(s.writeQueue_)
           data == head.data
           q == << [head EXCEPT !.data = <<>>] >> \o Tail(s.writeQueue_)
       IN startSockOp([s EXCEPT !.writeQueue_ = q],
                      Op("write", "pending", head.id,
                         IF garble THEN Garbled(data) ELSE data))

\* doWrite() called while the caller still holds writeMutex_: locking a
\* std::mutex the thread already owns is undefined; the thread blocks on
\* itself, or (no locking in effect, lock elision) goes on.
Relock == {"deadlock", "proceed"}
doWriteLocked(s, relock, garble) ==
  IF relock = "deadlock" THEN [s EXCEPT !.ctx = "deadlocked"]
  ELSE doWrite(s, garble)

\* The blocking resolver_.resolve() and asio::async_connect of doConnect.
\* resolve() throws when it fails and nothing catches: io_context::run is
\* left by the exception.  async_connect closes the socket, reopens it and
\* starts connecting.
doConnect(s, syncOk) ==
  IF ~syncOk
  THEN [s EXCEPT !.ctx = "terminated", !.hist.nFailed = @ + 1, !.hist.nFaults = @ + 1]
  ELSE LET c == close(s, "async_connect")
       IN [c EXCEPT !.socket_ = "open",
                    !.sockOps = << Op("connect", "pending", 0, << s.host_ >>) >>]

\* The handler of resolver_.async_resolve (doResolve's lambda).
onResolve(s, o, syncOk) ==
  IF o.ec # "ok" THEN handleDisconnect(onError(s, o))
  ELSE doConnect(s, syncOk)

handleConnect(s, o, relock, garble) ==
  IF o.ec # "ok" THEN handleDisconnect(onError(s, o))
  ELSE LET c == resetReconnectState([s EXCEPT !.state_ = "Connected"])
           r == doReadHeader([c EXCEPT !.hist.nConnected = @ + 1])
       IN IF r.writeQueue_ # <<>> THEN doWriteLocked(r, relock, garble) ELSE r

\* onMessage_(msg)
onMessage(s, body) == [s EXCEPT !.hist.delivered = Append(@, body)]

\* The handler of doReadHeader's async_read.
onReadHeader(s, o) ==
  IF o.ec # "ok"
  THEN IF o.ec # "aborted" THEN handleDisconnect(onError(s, o)) ELSE s
  ELSE LET bodyLen == decodeHeader(s.headerBuffer_)
       IN IF ~isValidLength(bodyLen)
          THEN handleDisconnect([s EXCEPT !.hist.errFraming = @ + 1])
          ELSE IF bodyLen > 0 THEN doReadBody(s, bodyLen)
          ELSE doReadHeader(onMessage(s, <<>>))

\* The handler of doReadBody's async_read.
onReadBody(s, o) ==
  IF o.ec # "ok"
  THEN IF o.ec # "aborted" THEN handleDisconnect(onError(s, o)) ELSE s
  ELSE doReadHeader(onMessage([s EXCEPT !.bodyBuffer_ = <<>>], s.bodyBuffer_))

\* The handler of doWrite's async_write.  pop() on an empty queue is
\* undefined; the model stops the thread there.
onWrite(s, o, relock, garble) ==
  IF o.ec # "ok"
  THEN IF o.ec # "aborted" THEN handleDisconnect(onError(s, o)) ELSE s
  ELSE IF s.writeQueue_ = <<>> THEN [s EXCEPT !.ctx = "terminated"]
  ELSE LET p == [s EXCEPT !.writeQueue_ = Tail(@)]
       IN IF p.writeQueue_ # <<>> /\ isConnected(p)
          THEN doWriteLocked(p, relock, garble) ELSE p

\* The handler send() posts.
onSend(s, o, garble) ==
  LET writeInProgress == s.writeQueue_ # <<>>
      p == [s EXCEPT !.writeQueue_ = Append(@, [id |-> o.n, data |-> o.data])]
  IN IF ~writeInProgress /\ isConnected(p) THEN doWrite(p, garble) ELSE p

\* Public API.
connect(s, host) ==
  LET c == resetReconnectState([s EXCEPT !.host_ = host, !.userDisconnect_ = FALSE])
  IN doResolve([c EXCEPT !.state_ = "Connecting"])

disconnect(s) ==
  LET t == cancelTimer([s EXCEPT !.userDisconnect_ = TRUE], "disconnect")
      c == close(t, "disconnect")
  IN [c EXCEPT !.state_ = "Disconnected"]

send(s, body) ==
  LET encoded == encode(body)
      id == Len(s.hist.enq) + 1
  IN [s EXCEPT !.ready = Append(@, Op("send", "ok", id, encoded)),
               !.hist.enq = Append(@, encoded)]

(***************************************************************************)
(* Initial state: a constructed client whose reconnect policy was set      *)
(* before the first connect().                                             *)
(***************************************************************************)
Configs ==
  {[enabled |-> FALSE, maxRetries |-> -1]}
    \cup {[enabled |-> TRUE, maxRetries |-> r] : r \in {-1} \cup 0..MaxRetriesCfg}

HistInit ==
  [ errIo |-> 0, errCancelled |-> 0, errAborted |-> 0, errFraming |-> 0,
    nFailed |-> 0, nTeardown |-> 0, nConnected |-> 0, nDisconnected |-> 0,
    delivered |-> <<>>, arrived |-> <<>>, sent |-> <<>>, enq |-> <<>>,
    nConnectCalls |-> 0, nDisconnectCalls |-> 0, nFaults |-> 0, nRx |-> 0,
    midFrame |-> FALSE, wire |-> <<>>, delays |-> <<>>,
    discIn |-> "none", closedBy |-> "none",
    step |-> [act |-> "Init", ec |-> "none"] ]

ClientInit ==
  /\ state_ = "Disconnected"
  /\ userDisconnect_ = FALSE
  /\ reconnectAttempts_ = 0
  /\ host_ = ""
  /\ socket_ = "closed"
  /\ sockOps = <<>>
  /\ inbound = <<>>
  /\ resolving = 0
  /\ reconnectTimer_ = [pending |-> FALSE, delay |-> 0]
  /\ ready = <<>>
  /\ writeQueue_ = <<>>
  /\ headerBuffer_ = <<0, 0, 0, 0>>
  /\ bodyBuffer_ = <<>>
  /\ ctx = "running"
  /\ hist = HistInit

Init ==
  /\ littleEndian = TRUE
  /\ castSaturates = FALSE
  /\ reconnectConfig_ \in Configs
  /\ ClientInit
  /\ scn = [sends |-> MaxSends, connects |-> MaxConnectCalls,
            disconnects |-> MaxDisconnectCalls, faults |-> MaxFaults, rx |-> MaxRx,
            attempts |-> MaxAttempts]
  /\ codec = [phase |-> "off"]

(***************************************************************************)
(* Calls made by the application.                                          *)
(***************************************************************************)
Connect ==
  /\ ctx # "terminated"
  /\ hist.nConnectCalls < scn.connects
  /\ \E h \in Hosts :
       Commit("Connect", "none", connect([Cur EXCEPT !.hist.nConnectCalls = @ + 1], h))

Disconnect ==
  /\ ctx # "terminated"
  /\ hist.nDisconnectCalls < scn.disconnects
  /\ Commit("Disconnect", "none", disconnect([Cur EXCEPT !.hist.nDisconnectCalls = @ + 1,
                                   !.hist.discIn = state_]))

Send ==
  /\ ctx # "terminated"
  /\ Len(hist.enq) < scn.sends
  /\ \E b \in Bodies : Commit("Send", "none", send(Cur, b))

(***************************************************************************)
(* Completions produced by the reactor and the network.                    *)
(***************************************************************************)
CompleteAt(s, i, ec) ==
  [s EXCEPT !.sockOps = RemoveAt(@, i),
            !.ready = Append(@, Completed(s.sockOps[i], ec))]
Fault(s) == [s EXCEPT !.hist.nFaults = @ + 1]
CanFault == hist.nFaults < scn.faults

ResolveSucceeds ==
  /\ ctx # "terminated" /\ resolving > 0
  /\ Commit("ResolveSucceeds", "none", [Cur EXCEPT !.resolving = @ - 1,
                        !.ready = Append(@, Op("resolve", "ok", 0, <<>>))])

ResolveFails ==
  /\ ctx # "terminated" /\ resolving > 0 /\ CanFault
  /\ Commit("ResolveFails", "none", Fault([Cur EXCEPT !.resolving = @ - 1,
                              !.ready = Append(@, Op("resolve", "err", 0, <<>>))]))

ConnectSucceeds ==
  /\ ctx # "terminated" /\ socket_ = "open"
  /\ \E i \in DOMAIN sockOps :
       /\ sockOps[i].op = "connect"
       /\ Commit("ConnectSucceeds", "none",
                 [CompleteAt(Cur, i, "ok") EXCEPT !.socket_ = "connected",
                                                  !.hist.midFrame = FALSE])

\* A refused connection also fails whatever else was started on the socket.
ConnectFails ==
  /\ ctx # "terminated" /\ socket_ = "open" /\ CanFault
  /\ \E i \in DOMAIN sockOps :
       /\ sockOps[i].op = "connect"
       /\ LET c == CompleteAt(Cur, i, "err")
          IN Commit("ConnectFails", "none", Fault([c EXCEPT
               !.sockOps = <<>>,
               !.ready = @ \o [j \in DOMAIN c.sockOps |-> Completed(c.sockOps[j], "err")]]))

\* The frames a peer may send: a body of at most MaxBodyLen bytes, or a
\* header announcing a body that never arrives in full.
PeerLens == 0..MaxBodyLen \cup {MAX_BODY_SIZE, MAX_BODY_SIZE + 1}

\* The peer writes a frame to the connection: the bytes join those the
\* client has not read yet.
PeerSends ==
  /\ ctx # "terminated" /\ socket_ = "connected" /\ hist.nRx < scn.rx
  /\ ~hist.midFrame
  /\ \E n \in PeerLens :
       \/ /\ n > MaxBodyLen
          /\ Commit("PeerSends", "none", [Cur EXCEPT !.inbound = @ \o U32(n),
                              !.hist.nRx = @ + 1,
                              !.hist.midFrame = TRUE,
                              !.hist.wire = Append(@, [left |-> HEADER_SIZE + n,
                                                       body |-> <<>>])])
       \/ \E b \in Bodies :
            /\ Len(b) = n
            /\ Commit("PeerSends", "none", [Cur EXCEPT !.inbound = @ \o U32(n) \o b,
                                !.hist.nRx = @ + 1,
                                !.hist.wire = Append(@, [left |-> HEADER_SIZE + n,
                                                         body |-> b])])

\* The frames of hist.wire after the client has read k more bytes, and the
\* bodies of the frames those bytes completed.
RECURSIVE Consume(_, _)
Consume(wire, k) ==
  IF k = 0 \/ wire = <<>> THEN [wire |-> wire, done |-> <<>>]
  ELSE IF Head(wire).left <= k
  THEN LET r == Consume(Tail(wire), k - Head(wire).left)
       IN [wire |-> r.wire, done |-> << Head(wire).body >> \o r.done]
  ELSE [wire |-> << [Head(wire) EXCEPT !.left = @ - k] >> \o Tail(wire), done |-> <<>>]

\* The read operations pending on the socket, oldest first.
PendingReads(ops) == SelectSeq(ops, LAMBDA o : o.op \in {"readHeader", "readBody"})
FirstRead(ops) ==
  CHOOSE i \in DOMAIN ops :
    /\ ops[i].op \in {"readHeader", "readBody"}
    /\ \A j \in 1..(i - 1) : ops[j].op \notin {"readHeader", "readBody"}

\* asio::async_read completes: the oldest pending read takes the bytes it
\* asked for from the front of the unread bytes, into the buffer it was
\* given.
ReadCompletes ==
  /\ ctx # "terminated" /\ socket_ = "connected"
  /\ PendingReads(sockOps) # <<>>
  /\ LET i == FirstRead(sockOps)
         o == sockOps[i]
         got == SubSeq(inbound, 1, o.n)
         r == Consume(hist.wire, o.n)
         c == [CompleteAt(Cur, i, "ok") EXCEPT
                 !.inbound = SubSeq(inbound, o.n + 1, Len(inbound)),
                 !.hist.wire = r.wire,
                 !.hist.arrived = @ \o r.done]
     IN /\ o.n <= Len(inbound)
        /\ Commit("ReadCompletes", "none",
                  IF o.op = "readHeader" THEN [c EXCEPT !.headerBuffer_ = got]
                                         ELSE [c EXCEPT !.bodyBuffer_ = got])

\* End of stream or a reset while a read is pending.
ReadFails ==
  /\ ctx # "terminated" /\ socket_ = "connected" /\ CanFault
  /\ \E i \in DOMAIN sockOps :
       /\ sockOps[i].op \in {"readHeader", "readBody"}
       /\ Commit("ReadFails", "none", Fault(CompleteAt(Cur, i, "err")))

WriteSucceeds ==
  /\ ctx # "terminated" /\ socket_ = "connected"
  /\ \E i \in DOMAIN sockOps :
       /\ sockOps[i].op = "write"
       /\ LET c == CompleteAt(Cur, i, "ok")
          IN Commit("WriteSucceeds", "none", [c EXCEPT !.hist.sent =
                       Append(@, [id |-> sockOps[i].n, bytes |-> sockOps[i].data])])

WriteFails ==
  /\ ctx # "terminated" /\ socket_ = "connected" /\ CanFault
  /\ \E i \in DOMAIN sockOps :
       /\ sockOps[i].op = "write"
       /\ Commit("WriteFails", "none", Fault(CompleteAt(Cur, i, "err")))

TimerFires ==
  /\ ctx # "terminated" /\ reconnectTimer_.pending
  /\ reconnectAttempts_ <= scn.attempts
  /\ Commit("TimerFires", "none", [Cur EXCEPT !.reconnectTimer_.pending = FALSE,
                        !.ready = Append(@, Op("timer", "ok", 0, <<>>))])

(***************************************************************************)
(* The io_context thread runs the handler at the head of the queue.        *)
(***************************************************************************)
CanRun(kind) == ctx = "running" /\ ready # <<>> /\ Head(ready).op = kind

\* What the handler is invoked with.  asio's composed connect reports
\* operation_aborted whenever the socket is closed by the time it runs.
Delivered(o) ==
  IF o.op = "connect" /\ socket_ = "closed" THEN Aborted(o, hist.closedBy) ELSE o

Taken ==
  LET o == Delivered(Head(ready))
  IN [Cur EXCEPT !.ready = Tail(@),
                 !.hist.nFailed = IF o.ec = "err" THEN @ + 1 ELSE @]

RunSend ==
  /\ CanRun("send")
  /\ \E garble \in BOOLEAN : Commit("RunSend", Delivered(Head(ready)).ec, onSend(Taken, Head(ready), garble))

RunResolve ==
  /\ CanRun("resolve")
  /\ \E syncOk \in BOOLEAN :
       /\ (~syncOk => CanFault)
       /\ Commit("RunResolve", Delivered(Head(ready)).ec, onResolve(Taken, Head(ready), syncOk))

RunConnect ==
  /\ CanRun("connect")
  /\ \E relock \in Relock, garble \in BOOLEAN :
       Commit("RunConnect", Delivered(Head(ready)).ec, handleConnect(Taken, Delivered(Head(ready)), relock, garble))

RunReadHeader ==
  /\ CanRun("readHeader")
  /\ Commit("RunReadHeader", Delivered(Head(ready)).ec, onReadHeader(Taken, Head(ready)))

RunReadBody ==
  /\ CanRun("readBody")
  /\ Commit("RunReadBody", Delivered(Head(ready)).ec, onReadBody(Taken, Head(ready)))

RunWrite ==
  /\ CanRun("write")
  /\ \E relock \in Relock, garble \in BOOLEAN :
       Commit("RunWrite", Delivered(Head(ready)).ec, onWrite(Taken, Head(ready), relock, garble))

RunTimer ==
  /\ CanRun("timer")
  /\ Commit("RunTimer", Delivered(Head(ready)).ec, onReconnectTimer(Taken, Head(ready)))

Next ==
  \/ RunSend \/ RunResolve \/ RunConnect \/ RunReadHeader \/ RunReadBody
  \/ RunWrite \/ RunTimer
  \/ ResolveSucceeds \/ ResolveFails \/ ConnectSucceeds \/ ConnectFails
  \/ PeerSends \/ ReadCompletes \/ ReadFails \/ WriteSucceeds \/ WriteFails
  \/ TimerFires
  \/ Connect \/ Disconnect \/ Send

Spec == Init /\ [][Next]_vars

(***************************************************************************)
(* The peer is silent: the application sends, the connection may fail.     *)
(***************************************************************************)
InitTx ==
  /\ littleEndian = TRUE
  /\ castSaturates = FALSE
  /\ reconnectConfig_ \in Configs
  /\ ClientInit
  /\ scn = [sends |-> TxSends, connects |-> 1, disconnects |-> 0,
            faults |-> TxFaults, rx |-> 0, attempts |-> MaxAttempts]
  /\ codec = [phase |-> "off"]

NextTx ==
  \/ RunSend \/ RunResolve \/ RunConnect \/ RunReadHeader \/ RunWrite \/ RunTimer
  \/ ResolveSucceeds \/ ResolveFails \/ ConnectSucceeds \/ ConnectFails
  \/ ReadFails \/ WriteSucceeds \/ WriteFails \/ TimerFires
  \/ Connect \/ Send

SpecTx == InitTx /\ [][NextTx]_vars

(***************************************************************************)
(* The application sends nothing: the peer sends frames.                   *)
(***************************************************************************)
InitRx ==
  /\ littleEndian = TRUE
  /\ castSaturates = FALSE
  /\ reconnectConfig_ \in Configs
  /\ ClientInit
  /\ scn = [sends |-> 0, connects |-> RxConnects, disconnects |-> 0,
            faults |-> RxFaults, rx |-> RxFrames, attempts |-> MaxAttempts]
  /\ codec = [phase |-> "off"]

NextRx ==
  \/ RunResolve \/ RunConnect \/ RunReadHeader \/ RunReadBody \/ RunTimer
  \/ ResolveSucceeds \/ ResolveFails \/ ConnectSucceeds \/ ConnectFails
  \/ PeerSends \/ ReadCompletes \/ ReadFails \/ TimerFires
  \/ Connect

SpecRx == InitRx /\ [][NextRx]_vars

(***************************************************************************)
(* The server stays unreachable for a long time: nothing is sent or        *)
(* received, attempts fail one after the other.                            *)
(***************************************************************************)
InitRetry ==
  /\ littleEndian = TRUE
  /\ castSaturates \in BOOLEAN
  /\ reconnectConfig_ \in Configs
  /\ ClientInit
  /\ scn = [sends |-> 0, connects |-> 1, disconnects |-> 0,
            faults |-> RetryFaults, rx |-> 0, attempts |-> RetryAttempts]
  /\ codec = [phase |-> "off"]

NextRetry ==
  \/ RunResolve \/ RunConnect \/ RunReadHeader \/ RunTimer
  \/ ResolveSucceeds \/ ResolveFails \/ ConnectSucceeds \/ ConnectFails
  \/ ReadFails \/ TimerFires
  \/ Connect

SpecRetry == InitRetry /\ [][NextRetry]_vars

(***************************************************************************)
(* Nothing fails and the peer is silent: the application connects, may     *)
(* connect again, and sends.                                               *)
(***************************************************************************)
InitFlush ==
  /\ littleEndian = TRUE
  /\ castSaturates = FALSE
  /\ reconnectConfig_ \in Configs
  /\ ClientInit
  /\ scn = [sends |-> FlushSends, connects |-> FlushConnects, disconnects |-> 0,
            faults |-> 0, rx |-> 0, attempts |-> 0]
  /\ codec = [phase |-> "off"]

NextFlush ==
  \/ RunSend \/ RunResolve \/ RunConnect \/ RunReadHeader \/ RunWrite
  \/ ResolveSucceeds \/ ConnectSucceeds \/ WriteSucceeds
  \/ Connect \/ Send

SpecFlush == InitFlush /\ [][NextFlush]_vars

(***************************************************************************)
(* The application thread calls connect() and disconnect() while the       *)
(* io_context thread is inside a handler: the teardown of a failed         *)
(* operation is followed in two steps, and the calls may fall in between.  *)
(***************************************************************************)
\* A handler that got a genuine failure reports it and runs handleDisconnect
\* up to line 154.
TeardownBegins ==
  /\ ctx = "running" /\ ready # <<>>
  /\ Head(ready).op \in {"resolve", "connect", "readHeader"}
  /\ Delivered(Head(ready)).ec = "err"
  /\ state_ # "Disconnected" /\ ~userDisconnect_
  /\ Commit("TeardownBegins", "err",
            [handleDisconnectUpToCallback(onError(Taken, Delivered(Head(ready))))
               EXCEPT !.ctx = "midTeardown"])

\* The same handler goes on from line 156 and returns.
TeardownEnds ==
  /\ ctx = "midTeardown"
  /\ Commit("TeardownEnds", "none",
            handleDisconnectFromReconnect([Cur EXCEPT !.ctx = "running"]))

InitThreads ==
  /\ littleEndian = TRUE
  /\ castSaturates = FALSE
  /\ reconnectConfig_ \in Configs
  /\ ClientInit
  /\ scn = [sends |-> 0, connects |-> 1, disconnects |-> 1,
            faults |-> ThreadFaults, rx |-> 0, attempts |-> MaxAttempts]
  /\ codec = [phase |-> "off"]

NextThreads ==
  \/ RunResolve \/ RunConnect \/ RunReadHeader \/ RunTimer
  \/ TeardownBegins \/ TeardownEnds
  \/ ResolveSucceeds \/ ResolveFails \/ ConnectSucceeds \/ ConnectFails
  \/ ReadFails \/ TimerFires
  \/ Connect \/ Disconnect

SpecThreads == InitThreads /\ [][NextThreads]_vars

(***************************************************************************)
(* The codec on its own: a body is encoded and the frame decoded again.    *)
(* cSize stands for the size of a body too large to materialise; only its  *)
(* header is built and decoded.                                            *)
(***************************************************************************)
CodecSizes == {0, 1, 2, 255, 256, 257, 65535, 65536, 65537,
               MAX_BODY_SIZE - 1, MAX_BODY_SIZE, MAX_BODY_SIZE + 1}

InitCodec ==
  /\ littleEndian \in BOOLEAN
  /\ castSaturates = FALSE
  /\ reconnectConfig_ = [enabled |-> TRUE, maxRetries |-> -1]
  /\ ClientInit
  /\ scn = [sends |-> 0, connects |-> 0, disconnects |-> 0, faults |-> 0, rx |-> 0,
            attempts |-> 0]
  /\ \E b \in Bodies, n \in CodecSizes :
       codec = [phase |-> "input", body |-> b, size |-> n]

CodecEncode ==
  /\ codec.phase = "input"
  /\ codec' = [phase |-> "encoded", body |-> codec.body, size |-> codec.size,
               frame |-> encode(codec.body), header |-> encodeHeader(codec.size)]
  /\ UNCHANGED << littleEndian, castSaturates, clientVars, scn >>

CodecDecode ==
  /\ codec.phase = "encoded"
  /\ codec' = [phase |-> "decoded", body |-> codec.body, size |-> codec.size,
               frame |-> codec.frame, header |-> codec.header,
               bodyLen |-> decodeHeader(codec.frame),
               payload |-> frameBody(codec.frame),
               sizeLen |-> decodeHeader(codec.header),
               valid |-> isValidLength(decodeHeader(codec.header))]
  /\ UNCHANGED << littleEndian, castSaturates, clientVars, scn >>

NextCodec == CodecEncode \/ CodecDecode

SpecCodec == InitCodec /\ [][NextCodec]_vars

(***************************************************************************)
(* Properties.                                                             *)
(***************************************************************************)
InReady(kind, ec) == \E i \in DOMAIN ready : ready[i].op = kind /\ ready[i].ec = ec
CountReady(kind) == Cardinality({i \in DOMAIN ready : ready[i].op = kind})
CountPending(kind) == Cardinality({i \in DOMAIN sockOps : sockOps[i].op = kind})
OnErrorCalls(h) == h.errIo + h.errCancelled + h.errAborted + h.errFraming

\* C11: the delays of the reconnect timers scheduled since the last
\* successful connection or connect() call are, in order,
\* min(initialDelay * multiplier^k, maxDelay) for k = 0, 1, 2, ...: 1000,
\* 2000, 4000, 8000, 16000, 30000 and 30000 from then on.
C11_BackoffSequence ==
  \A i \in DOMAIN hist.delays :
    hist.delays[i] = IF i <= 5 THEN << 1000, 2000, 4000, 8000, 16000 >>[i] ELSE 30000

\* C18: under unlimited retries every computed reconnect delay lies between
\* initialDelay and maxDelay and the delays never decrease from one retry
\* to the next, however many retries were scheduled.
C18_DelayBoundedMonotone ==
  reconnectConfig_.maxRetries = -1
    => \A i \in DOMAIN hist.delays :
         /\ InitialDelayMs <= hist.delays[i]
         /\ hist.delays[i] <= MaxDelayMs
         /\ i > 1 => hist.delays[i - 1] <= hist.delays[i]

\* The connection attempts in flight: resolves and connects pending or
\* completed with their handler still to run, and reconnect timers pending
\* or fired with their handler still to run.
LiveCompletions(kind) ==
  Cardinality({i \in DOMAIN ready : ready[i].op = kind /\ ready[i].ec # "aborted"})
AttemptsInFlight ==
  resolving + LiveCompletions("resolve")
    + CountPending("connect") + LiveCompletions("connect")
    + (IF reconnectTimer_.pending THEN 1 ELSE 0) + LiveCompletions("timer")

\* C12: connect() clears the user-disconnect flag, resets the reconnect
\* counter, stores the target and moves to Connecting, and it supersedes
\* whatever attempt or timer was in progress: when it returns exactly one
\* connection attempt is in flight.
C12_ConnectRestartsAttempt ==
  [][ hist'.step.act = "Connect"
        => /\ ~userDisconnect_'
           /\ reconnectAttempts_' = 0
           /\ host_' \in Hosts
           /\ state_' = "Connecting"
           /\ AttemptsInFlight' = 1 ]_vars

\* C1: once disconnect() has returned, state() is Disconnected and stays so:
\* while the user-disconnect flag is set (connect() has not been called
\* again) no completion handler moves the state away from Disconnected.
C1_DisconnectedUntilConnect == userDisconnect_ => state_ = "Disconnected"

\* C2: cancellation is silent: onError is never invoked for an operation
\* that disconnect() cancelled by closing the transport.
C2_CancellationSilent == hist.errCancelled = 0

\* C3: after disconnect() was called in state Reconnecting, and until
\* connect() is called again, the timer handler starts no new attempt (no
\* resolve, no fresh socket, state untouched) and no step enters Connecting.
C3_UserDisconnectSuppressesReconnect ==
  [][ (hist.discIn = "Reconnecting" /\ userDisconnect_ /\ userDisconnect_')
        => /\ state_' = "Connecting" => state_ = "Connecting"
           /\ hist'.step.act = "RunTimer"
                => /\ state_' = state_
                   /\ resolving' = resolving
                   /\ socket_' = socket_
                   /\ ~reconnectTimer_'.pending ]_vars

\* C3 witness: disconnect() came while Reconnecting with the timer already
\* fired, and its handler has now run with a success code.
C3_Witness ==
  /\ hist.discIn = "Reconnecting"
  /\ userDisconnect_
  /\ hist.step = [act |-> "RunTimer", ec |-> "ok"]
  /\ state_ = "Disconnected"

\* C4: FIFO delivery: what reaches the transport is, in enqueue order, the
\* frames that were enqueued: every chunk written is the encoded frame of
\* the entry it was written for, and entries are written in enqueue order.
C4_FifoDelivery ==
  /\ \A i \in DOMAIN hist.sent : hist.sent[i].bytes = hist.enq[hist.sent[i].id]
  /\ \A i, j \in DOMAIN hist.sent : i < j => hist.sent[i].id < hist.sent[j].id

\* C5: every queued message is written once the connection is up: while
\* the client is Connected on a connected socket with entries queued, the
\* flush is running (a write is pending or its completion is queued, and
\* the io_context thread is able to run it).
C5_QueuedMessagesFlushed ==
  (state_ = "Connected" /\ socket_ = "connected" /\ writeQueue_ # <<>>)
    => /\ ctx = "running"
       /\ CountPending("write") + CountReady("write") > 0

\* C6: retry exhaustion is final: once the retries are used up and the
\* state is Disconnected, no reconnect timer is pending or about to be
\* handled.
C6_RetryExhaustionFinal ==
  ( /\ hist.nConnectCalls > 0
    /\ ~userDisconnect_
    /\ reconnectConfig_.enabled
    /\ reconnectConfig_.maxRetries >= 0
    /\ reconnectAttempts_ >= reconnectConfig_.maxRetries
    /\ state_ = "Disconnected" )
    => ~reconnectTimer_.pending /\ ~InReady("timer", "ok")

\* C7: every genuine I/O failure that reached the client was reported by
\* exactly one onError invocation, and every onError invocation was
\* followed by handleDisconnect.
C7_FailureReportedOnce ==
  /\ hist.errIo = hist.nFailed
  /\ hist.nTeardown = OnErrorCalls(hist)

\* The length a 4-byte big-endian header declares.
WireLength(h) == ((h[1] * 256 + h[2]) * 256 + h[3]) * 256 + h[4]

\* The state the teardown path leaves the client in.
AfterTeardown ==
  IF state_ = "Disconnected" \/ userDisconnect_ THEN "Disconnected"
  ELSE IF reconnectConfig_.enabled
          /\ (reconnectConfig_.maxRetries < 0
                \/ reconnectAttempts_ < reconnectConfig_.maxRetries)
  THEN "Reconnecting"
  ELSE "Disconnected"

\* C8: when the header handler runs on a header declaring more than 16 MiB,
\* no body read is started, nothing is delivered, onError is invoked once,
\* the socket is closed and the state is the one the teardown path gives;
\* a header declaring exactly 16 MiB starts the body read instead.
C8_OversizedHeaderIsFramingError ==
  [][ (hist'.step = [act |-> "RunReadHeader", ec |-> "ok"])
        => /\ WireLength(headerBuffer_) > 16 * 1024 * 1024
                => /\ CountPending("readBody")' + CountReady("readBody")'
                        <= CountPending("readBody") + CountReady("readBody")
                   /\ hist'.delivered = hist.delivered
                   /\ OnErrorCalls(hist') = OnErrorCalls(hist) + 1
                   /\ hist'.errFraming = hist.errFraming + 1
                   /\ hist'.nTeardown = hist.nTeardown + 1
                   /\ state_ # "Disconnected" => socket_' = "closed"
                   /\ state_' = AfterTeardown
           /\ WireLength(headerBuffer_) = 16 * 1024 * 1024
                => /\ OnErrorCalls(hist') = OnErrorCalls(hist)
                   /\ CountPending("readBody")' + CountReady("readBody")'
                        = CountPending("readBody") + CountReady("readBody") + 1 ]_vars

\* C8 witness: an oversized header was handled and the client is waiting
\* to reconnect.
C8_Witness ==
  /\ hist.step = [act |-> "RunReadHeader", ec |-> "ok"]
  /\ hist.errFraming = 1
  /\ state_ = "Reconnecting"
  /\ socket_ = "closed"

IsPrefix(p, q) == Len(p) <= Len(q) /\ SubSeq(q, 1, Len(p)) = p

\* C9: the payloads handed to onMessage are, in order and each once, the
\* bodies of the valid frames the client has read off the connection (empty for a
\* zero-length frame): the handler of a completed body read, and the
\* handler of a header declaring length 0, deliver the frame they read and
\* start the read of the next header; no other step delivers.
C9_InboundDeliveredInOrder ==
  [][ /\ IsPrefix(hist'.delivered, hist'.arrived)
      /\ hist'.delivered # hist.delivered
           <=> \/ hist'.step = [act |-> "RunReadBody", ec |-> "ok"]
               \/ /\ hist'.step = [act |-> "RunReadHeader", ec |-> "ok"]
                  /\ WireLength(headerBuffer_) = 0
      /\ hist'.delivered # hist.delivered
           => /\ Len(hist'.delivered) = Len(hist.delivered) + 1
              /\ CountPending("readHeader")' + CountReady("readHeader")' > 0 ]_vars


\* the 4 bytes of n as an unsigned big-endian integer
BigEndian4(n) == [i \in 1..4 |-> (n \div (256 ^ (4 - i))) % 256]

\* C10: a body of at most 16 MiB encodes to 4 + len bytes: len as a
\* big-endian unsigned integer, then the body; decodeHeader of the first 4
\* bytes gives len back and the rest is the body; a zero-length body
\* encodes to 00 00 00 00.
C10_RoundTrip ==
  /\ codec.phase \in {"encoded", "decoded"}
       => /\ Len(codec.frame) = 4 + Len(codec.body)
          /\ SubSeq(codec.frame, 1, 4) = BigEndian4(Len(codec.body))
          /\ SubSeq(codec.frame, 5, Len(codec.frame)) = codec.body
          /\ codec.body = <<>> => codec.frame = <<0, 0, 0, 0>>
          /\ codec.size <= 16 * 1024 * 1024 => codec.header = BigEndian4(codec.size)
  /\ codec.phase = "decoded"
       => /\ codec.bodyLen = Len(codec.body)
          /\ codec.payload = codec.body
          /\ codec.size <= 16 * 1024 * 1024
               => codec.sizeLen = codec.size /\ codec.valid

\* C10 witness: on a little-endian host, a one-byte body and the header of
\* a 16 MiB body went through encode and decodeHeader.
C10_Witness ==
  /\ littleEndian
  /\ codec.phase = "decoded"
  /\ codec.body = <<97>>
  /\ codec.size = 16 * 1024 * 1024

\* The completion handlers of the client.
Handlers == {"RunResolve", "RunConnect", "RunReadHeader", "RunReadBody", "RunWrite", "RunTimer"}

\* C13: every change of state_ follows an edge of the state machine:
\* connect() to Connecting; Connecting to Connected when the connect handler
\* runs with success; Connecting or Connected to Reconnecting or
\* Disconnected in a handler (failure, peer close); Reconnecting to
\* Connecting in the timer handler; anything to Disconnected by
\* disconnect().  Disconnected is left only by connect() and Connected is
\* entered only from Connecting.
C13_StateMachineEdges ==
  [][ state_' # state_
        => \/ hist'.step.act = "Connect" /\ state_' = "Connecting"
           \/ hist'.step.act = "Disconnect" /\ state_' = "Disconnected"
           \/ /\ state_ = "Connecting"
              /\ hist'.step = [act |-> "RunConnect", ec |-> "ok"]
              /\ state_' = "Connected"
           \/ /\ state_ \in {"Connecting", "Connected"}
              /\ hist'.step.act \in Handlers
              /\ state_' \in {"Reconnecting", "Disconnected"}
           \/ /\ state_ = "Reconnecting"
              /\ hist'.step = [act |-> "RunTimer", ec |-> "ok"]
              /\ state_' = "Connecting" ]_vars

C15_EntryKeptUntilWritten ==
  [][ /\ \A i \in DOMAIN writeQueue_' :
           writeQueue_'[i].data = hist'.enq[writeQueue_'[i].id]
      /\ Len(writeQueue_') < Len(writeQueue_)
           => /\ hist'.step = [act |-> "RunWrite", ec |-> "ok"]
              /\ writeQueue_' = Tail(writeQueue_) ]_vars

\* C16: the bytes behind the buffer of every write that was started and
\* whose handler has not run yet are the encoded frame of the entry the
\* write was started for.
C16_WriteBufferHoldsFrame ==
  /\ \A i \in DOMAIN sockOps :
       sockOps[i].op = "write" => sockOps[i].data = hist.enq[sockOps[i].n]
  /\ \A i \in DOMAIN ready :
       ready[i].op = "write" => ready[i].data = hist.enq[ready[i].n]

\* C17: the reconnect counter is 0 after connect() and after the connect
\* handler ran with success; it changes otherwise only by +1, in a handler
\* that leaves a reconnect timer pending, and every newly pending timer
\* comes with such an increment; with maxRetries >= 0 the counter never
\* exceeds maxRetries.
C17_CounterDiscipline ==
  [][ /\ (hist'.step.act = "Connect" \/ hist'.step = [act |-> "RunConnect", ec |-> "ok"])
           => reconnectAttempts_' = 0
      /\ reconnectAttempts_' # reconnectAttempts_
           => \/ /\ reconnectAttempts_' = 0
                 /\ \/ hist'.step.act = "Connect"
                    \/ hist'.step = [act |-> "RunConnect", ec |-> "ok"]
              \/ /\ reconnectAttempts_' = reconnectAttempts_ + 1
                 /\ hist'.step.act \in Handlers
                 /\ reconnectTimer_'.pending
      /\ (reconnectTimer_'.pending /\ ~reconnectTimer_.pending)
           => reconnectAttempts_' = reconnectAttempts_ + 1
      /\ reconnectConfig_.maxRetries >= 0
           => reconnectAttempts_' <= reconnectConfig_.maxRetries ]_vars

\* C17 witness: with maxRetries = 1 the one retry was scheduled and failed,
\* and the teardown that followed scheduled no further timer.
C17_Witness ==
  /\ reconnectConfig_.enabled
  /\ reconnectConfig_.maxRetries = 1
  /\ reconnectAttempts_ = 1
  /\ hist.delays = << 1000 >>
  /\ hist.step.act \in Handlers
  /\ state_ = "Disconnected"
  /\ ~userDisconnect_
  /\ ~reconnectTimer_.pending

\* C19: connect() and disconnect() do not themselves change the connection
\* state: a call made while the io_context thread is in the middle of a
\* handler (between handleDisconnect's test of the user-disconnect flag and
\* its scheduling of the reconnect) leaves state, flag, target, counter,
\* socket and timer as they are.
C19_ApiCallsHandOff ==
  [][ (ctx = "midTeardown" /\ hist'.step.act \in {"Connect", "Disconnect"})
        => UNCHANGED << state_, userDisconnect_, host_, reconnectAttempts_,
                        socket_, reconnectTimer_ >> ]_vars

\* Reconnect is enabled, retries are left and disconnect() was never called.
WillRetry ==
  /\ reconnectConfig_.enabled
  /\ hist.nDisconnectCalls = 0
  /\ reconnectConfig_.maxRetries = -1 \/ reconnectAttempts_ < reconnectConfig_.maxRetries

\* C20: while reconnect is enabled, retries are left and disconnect() was
\* not called: a step in which an operation of the client fails ends in
\* state Reconnecting with the timer pending; the timer handler, run after
\* the timer fired, leaves a fresh socket, state Connecting and a resolve
\* started; and in state Reconnecting the timer is pending or has fired
\* with its handler still to run.
C20_FailureLeadsToReconnect ==
  [][ WillRetry
        => /\ hist'.nFailed > hist.nFailed
                => state_' = "Reconnecting" /\ reconnectTimer_'.pending
           /\ hist'.step = [act |-> "RunTimer", ec |-> "ok"]
                => /\ state_' = "Connecting"
                   /\ socket_' = "closed"
                   /\ resolving' = resolving + 1
           /\ state_' = "Reconnecting"
                => reconnectTimer_'.pending \/ InReady("timer", "ok")' ]_vars

\* C21: the io_context thread never blocks on writeMutex_: no handler
\* requests the mutex while holding it, so the thread is never stuck in
\* handleConnect or in the write handler.
C21_NoSelfDeadlock == ctx # "deadlocked"

\* C22: teardown takes effect once per connection loss: when a read or
\* write handler runs with a genuine error after the teardown of the same
\* loss has already scheduled the reconnect timer, it leaves the counter,
\* the timer and the state alone; and the state is never Disconnected
\* while a reconnect timer is pending.
C22_TeardownOncePerLoss ==
  [][ hist.nDisconnectCalls = 0
        => /\ ( /\ hist'.step.act \in {"RunReadHeader", "RunReadBody", "RunWrite"}
                /\ hist'.step.ec = "err"
                /\ state_ = "Reconnecting"
                /\ reconnectTimer_.pending )
                => /\ reconnectAttempts_' = reconnectAttempts_
                   /\ reconnectTimer_' = reconnectTimer_
                   /\ state_' = "Reconnecting"
           /\ state_' = "Disconnected" => ~reconnectTimer_'.pending ]_vars

\* C23: onConnected and onDisconnected alternate, onConnected first: the
\* callbacks invoked so far are as many of each, or one onConnected more;
\* once the connection has ended (the socket is no longer connected and no
\* handler is left to run) they are as many of each.
C23_CallbacksAlternate ==
  /\ hist.nDisconnected <= hist.nConnected
  /\ hist.nConnected <= hist.nDisconnected + 1
  /\ (socket_ # "connected" /\ ready = <<>>) => hist.nConnected = hist.nDisconnected

TypeOK ==
  /\ state_ \in States
  /\ ctx \in {"running", "deadlocked", "terminated", "midTeardown"}
  /\ socket_ \in {"closed", "open", "connected"}
  /\ inbound \in Seq(0..255)
  /\ socket_ # "connected" => inbound = <<>>

====
